---------------------------- MODULE Spec2Model ----------------------------
(***************************************************************************)
(* A model of the WhataWatch collection pipeline:                          *)
(*   - scrape_all_watched   (boxd_user/views.py): paginated discovery,     *)
(*   - fetch_and_save_all   (boxd_user/views.py): bounded-concurrency      *)
(*     detail fetch on an asyncio event loop,                              *)
(*   - scrape_movies_from_csv / scrape_movies_from_list (letterboxdpy):    *)
(*     the resumable merge into the persisted CSV dataset.                 *)
(* Each part has its own specification (SpecScrape, SpecFetch, SpecBatch,  *)
(* SpecMerge) over the shared variable tuple; the variables of the other   *)
(* parts keep their initial values.                                        *)
(***************************************************************************)
EXTENDS Integers, Sequences, FiniteSets, TLC

VARIABLES
    \* ---- scrape_all_watched ----
    server,         \* the remote listing the run is pointed at
    s_pc,           \* "loop" | "returned" | "raised"
    page,           \* local `page`
    all_films,      \* local `all_films`
    seen_urls,      \* local `seen_urls`
    pages_scraped,  \* second component of the returned tuple
    requests,       \* log of the listing requests issued so far
    \* ---- fetch_and_save_all ----
    net,            \* the workers whose requests the remote site may fail
    films,          \* argument `films`
    concurrency,    \* argument `concurrency`
    sem,            \* asyncio.Semaphore: [value, waiters]
    client_open,    \* the httpx.AsyncClient is inside its `async with`
    m_pc,           \* fetch_and_save_all: "start" | "gather" | "returned" | "raised"
    m_i,            \* loop variable `i` of the batch loop
    w_pc,           \* position of each worker task
    w_loc,          \* locals html / stats_html / ratings_html of each worker
    saved_movies,   \* local `saved_movies`
    db,             \* slugs of the Movie rows written by save_movie_from_data
    \* ---- scrape_movies_from_csv / scrape_movies_from_list ----
    merger,         \* which merger is run: "csv" | "list"
    input_batch,    \* the slugs of the input (CSV rows / list entries), 0 = blank
    start_rows,     \* the rows of the output file before the first run
    output_rows,    \* the rows of the output file now
    runs,           \* log of the merge runs made so far
    \* ---- MovieRecommender ----
    engine,             \* "utils" (utils/recommendation_engine.py) | "root"
    movies_df,          \* the catalog rows, in storage order
    letterboxd_data,    \* argument `letterboxd_data`
    n_recommendations,  \* argument `n_recommendations`
    min_popularity,     \* argument `min_popularity` / `min_vote_count`
    r_pc,               \* get_recommendations: "idle" | "call" | "matched" |
                        \*   "analyzed" | "returned" | "raised"
    user_movies,        \* local `user_movies`
    prefs,              \* local `prefs`
    candidates,         \* local `candidates` with the score column
    recs,               \* the returned frame
    r_exc,              \* the exception get_recommendations raised
    \* ---- calculate_similarity_score called on its own ----
    probe,              \* the arguments: [movie_row, prefs, watched]
    probe_score,        \* the value returned
    \* ---- import_letterboxd_view ----
    v_pc,               \* "idle" | "request" | "recommend" | "collected" |
                        \*   "rendered" | "bad_request" | "unhandled"
    request,            \* [method, username]
    recommendations,    \* local `recommendations`
    recommender_error,  \* local `recommender_error`
    \* ---- get_diverse_recommendations ----
    d_pc,               \* "idle" | "start" | "pooling" | "returned" | "raised"
    d_n,                \* argument `n_recommendations`
    diversity_factor,   \* argument `diversity_factor`, in thousandths
    d_result,           \* the returned frame
    \* ---- the cached pages of the site ----
    clock,              \* seconds since the start
    genre_table,        \* the Genre rows, in insertion order
    movie_record,       \* the Movie row of slug 'avatar'
    page_cache,         \* the cache entry of the genre list URL
    responses           \* log of the responses served so far

scrapeVars == <<server, s_pc, page, all_films, seen_urls, pages_scraped, requests>>

fetchVars == <<net, films, concurrency, sem, client_open, m_pc, m_i, w_pc, w_loc,
               saved_movies, db>>

mergeVars == <<merger, input_batch, start_rows, output_rows, runs>>

engineVars == <<engine, movies_df, letterboxd_data, n_recommendations, min_popularity,
                r_pc, user_movies, prefs, candidates, recs, r_exc>>

probeVars == <<probe, probe_score>>

viewVars == <<v_pc, request, recommendations, recommender_error>>

recVars == <<engineVars, probeVars, viewVars>>

diverseVars == <<d_pc, d_n, diversity_factor, d_result>>

siteVars == <<clock, genre_table, movie_record, page_cache, responses>>

lateVars == <<diverseVars, siteVars>>

vars == <<scrapeVars, fetchVars, mergeVars, recVars, lateVars>>

(***************************************************************************)
(* Bounds of the model.                                                    *)
(***************************************************************************)
NumSlugs == 3       \* distinct film slugs the remote site knows
MaxPageLen == 2     \* entries on one listing page
MaxFilms == 2       \* films handed to fetch_and_save_all
MaxConc == 2        \* values of the `concurrency` argument
NumMergeSlugs == 2  \* distinct slugs seen by the mergers
MergeSize == 3      \* rows of the persisted file plus entries of the batch
MaxRuns == 2        \* consecutive merge runs

Slugs == 1..NumSlugs

Max(a, b) == IF a >= b THEN a ELSE b
Min(a, b) == IF a <= b THEN a ELSE b

\* Sequences over S of length 0..n.
RECURSIVE SeqsUpTo(_, _)
SeqsUpTo(S, n) ==
    IF n = 0 THEN {<<>>}
    ELSE LET shorter == SeqsUpTo(S, n - 1)
         IN  shorter \cup {Append(q, x) : q \in {r \in shorter : Len(r) = n - 1}, x \in S}

Range(q) == {q[i] : i \in 1..Len(q)}

(***************************************************************************)
(* Values.                                                                 *)
(***************************************************************************)
\* A film dict as parse_films_list builds it: {'id': ..., 'slug': ...}.
\* On the site a film's id and its slug determine each other.
FilmOf(slug) == [id |-> 100 + slug, slug |-> slug]

\* What fetch_html hands back: None, the empty string, or page text.  The
\* text of a page is represented by what the page parser reads out of it.
None == [kind |-> "None", body |-> <<>>]
EmptyText == [kind |-> "empty", body |-> <<>>]
Text(body) == [kind |-> "text", body |-> body]
Raised == [kind |-> "raise", body |-> <<>>]

\* Python truthiness of `html`: None and '' are falsy.
Truthy(html) == html.kind = "text"

\* What client.get / raise_for_status can do with one request.
HttpOk(text) == [status |-> "ok", text |-> text]
HttpStatusError == [status |-> "http_error", text |-> EmptyText]
NetworkError == [status |-> "exception", text |-> EmptyText]
Timeout == [status |-> "timeout", text |-> EmptyText]

(***************************************************************************)
(* fetch_html: every failure of the request becomes None.                  *)
(***************************************************************************)
fetch_html_Propagates(resp) ==
    IF resp.status = "ok" THEN resp.text ELSE Raised

\* Without the `except Exception` branch.
fetch_html_StatusErrorOnly(resp) ==
    IF resp.status = "ok" THEN resp.text
    ELSE IF resp.status = "http_error" THEN None
    ELSE Raised

fetch_html(resp) ==
    IF resp.status = "ok" THEN resp.text ELSE None

\* parse_films_list: the film dicts of the page's poster grid, in page order.
parse_films_list(html) == html.body

(***************************************************************************)
(* The remote listing.  mode "any": the site may answer a page request in  *)
(* any way.  mode "listing": K unique titles 1..K served K/ps to a page,   *)
(* every fetch succeeding, pages past the end holding no entry.            *)
(***************************************************************************)
ListingPage(K, ps, p) ==
    [i \in 1..Max(0, Min(ps, K - (p - 1) * ps)) |-> FilmOf((p - 1) * ps + i)]

AnyPage == {[i \in 1..Len(q) |-> FilmOf(q[i])] : q \in SeqsUpTo(Slugs, MaxPageLen)}

Responses(srv, p) ==
    IF srv.mode = "listing"
    THEN {HttpOk(Text(ListingPage(srv.K, srv.ps, p)))}
    ELSE {HttpStatusError, NetworkError, Timeout, HttpOk(EmptyText)}
         \cup {HttpOk(Text(pg)) : pg \in AnyPage}

Servers ==
    {[mode |-> "any", K |-> 0, ps |-> 1]}
    \cup {[mode |-> "listing", K |-> k, ps |-> s] : k \in 0..NumSlugs, s \in 1..MaxPageLen}

(***************************************************************************)
(* scrape_all_watched                                                      *)
(***************************************************************************)
\* new = [f for f in films if f['slug'] not in seen_urls]
NewFilms(listed, seen) == SelectSeq(listed, LAMBDA f : f.slug \notin seen)

\* page += 1
NextPage_Stuck(p) == p

NextPage(p) == p + 1

\* pages_scraped = page - 1
PagesScraped_LastRequested(p) == p

PagesScraped(p) == p - 1

ScrapeInit ==
    /\ server \in Servers
    /\ s_pc = "loop"
    /\ page = 1
    /\ all_films = <<>>
    /\ seen_urls = {}
    /\ pages_scraped = 0
    /\ requests = <<>>

\* One pass of the `while True` loop: request the page, then either break
\* (and return) or collect the new films and move to the next page.
ScrapeIteration ==
    /\ s_pc = "loop"
    /\ \E resp \in Responses(server, page) :
        LET html == fetch_html(resp)
            listed == IF Truthy(html) THEN parse_films_list(html) ELSE <<>>
            new == NewFilms(listed, seen_urls)
            entry == [page |-> page, fetched |-> resp.status = "ok",
                      status |-> resp.status, html |-> html,
                      fresh |-> IF resp.status = "ok"
                                THEN {f.slug : f \in Range(resp.text.body)} \ seen_urls
                                ELSE {},
                      listed |-> IF resp.status = "ok" THEN Len(resp.text.body) ELSE 0]
        IN  /\ requests' = Append(requests, entry)
            /\ IF html.kind = "raise"
               THEN /\ s_pc' = "raised"
                    /\ UNCHANGED <<page, all_films, seen_urls, pages_scraped>>
               ELSE IF ~Truthy(html) \/ new = <<>>
               THEN /\ s_pc' = "returned"
                    /\ pages_scraped' = PagesScraped(page)
                    /\ UNCHANGED <<page, all_films, seen_urls>>
               ELSE /\ seen_urls' = seen_urls \cup {f.slug : f \in Range(new)}
                    /\ all_films' = all_films \o new
                    /\ page' = NextPage(page)
                    /\ UNCHANGED <<s_pc, pages_scraped>>
    /\ UNCHANGED server
    /\ UNCHANGED <<fetchVars, mergeVars, recVars, lateVars>>

(***************************************************************************)
(* fetch_and_save_all                                                      *)
(***************************************************************************)
\* BATCH = 50
BATCH == 50

Workers == 1..Len(films)

\* What the three pages of a film hold, as the extractors read it.
DetailBody(film) == <<film.slug>>
StatsBody == <<12, 3, 5>>
RatingsBody == <<4>>

\* The answers one request of a worker can get.  Once the client has left
\* its `async with`, a request fails with an exception.
FilmResponses(w, body) ==
    IF ~client_open THEN {NetworkError}
    ELSE IF w \notin net THEN {HttpOk(Text(body))}
    ELSE {HttpStatusError, NetworkError, HttpOk(EmptyText), HttpOk(Text(body))}

\* A result of a call that may raise.
Returns(v) == [raised |-> FALSE, val |-> v]
Raises == [raised |-> TRUE, val |-> <<>>]

\* extract_stats: BeautifulSoup(None) raises TypeError; on a page without the
\* statistics list `stats` is None and stats.find raises AttributeError.
extract_stats(html) ==
    IF Truthy(html) THEN Returns(html.body) ELSE Raises

\* extract_ratings: BeautifulSoup(None) raises TypeError; a page without a
\* display-rating link gives None (written <<>>).
extract_ratings(html) ==
    IF html.kind = "None" THEN Raises
    ELSE IF html.kind = "empty" THEN Returns(<<>>)
    ELSE Returns(html.body)

\* parse_film_page(html) if html else {}: the keys name, genres, ... exist
\* only when the detail page was fetched.
parse_film_page(html) ==
    IF Truthy(html) THEN [parsed |-> TRUE, name |-> html.body]
    ELSE [parsed |-> FALSE, name |-> <<>>]

\* The dict `details` a worker builds.
Details(film, html, stats, ratings) ==
    LET d == parse_film_page(html)
    IN  [parsed |-> d.parsed, name |-> d.name,
         movie_id |-> film.id, slug |-> film.slug,
         total_views |-> stats[1], in_lists |-> stats[2], total_likes |-> stats[3],
         ratings |-> ratings]

\* save_movie_from_data: movie_data.pop('genres') raises KeyError on a dict
\* built without the detail page.
save_movie_from_data(details) ==
    IF details.parsed THEN Returns(details.slug) ELSE Raises

\* sem = asyncio.Semaphore(concurrency)
Semaphore_OneTooMany(c) == [value |-> c + 1, waiters |-> <<>>]

Semaphore(c) == [value |-> c, waiters |-> <<>>]

\* Semaphore.locked()
SemLocked(s) == s.value = 0 \/ s.waiters # <<>>

\* Semaphore.release(): the permit goes straight to the first waiter.
SemRelease(s) ==
    IF s.waiters = <<>> THEN [s EXCEPT !.value = @ + 1]
    ELSE [s EXCEPT !.waiters = Tail(@)]

NoLocals == [html |-> None, stats_html |-> None, ratings_html |-> None]

\* tasks[i : i + BATCH]
BatchOf(i) == {w \in Workers : i < w /\ w <= i + BATCH}

AllStarted == \A w \in Workers : w_pc[w] # "created"

FilmLists == {[i \in 1..n |-> FilmOf(i)] : n \in 0..MaxFilms}

FetchInitWith(fs, c, n) ==
    /\ net = n
    /\ films = fs
    /\ concurrency = c
    /\ sem = Semaphore(c)
    /\ client_open = TRUE
    /\ m_pc = "start"
    /\ m_i = 0
    /\ w_pc = [w \in 1..Len(fs) |-> "none"]
    /\ w_loc = [w \in 1..Len(fs) |-> NoLocals]
    /\ saved_movies = <<>>
    /\ db = {}

FetchIdle == FetchInitWith(<<>>, 1, {})

\* tasks = [asyncio.create_task(worker(f)) for f in films], then the entry
\* into the batch loop; with no film the loop body never runs and the
\* function returns at once.
MainCreateTasks ==
    /\ m_pc = "start"
    /\ w_pc' = [w \in Workers |-> "created"]
    /\ IF Len(films) = 0
       THEN m_pc' = "returned" /\ client_open' = FALSE
       ELSE m_pc' = "gather" /\ UNCHANGED client_open
    /\ UNCHANGED <<scrapeVars, mergeVars, recVars, lateVars>>
    /\ UNCHANGED <<net, films, concurrency, sem, m_i, w_loc, saved_movies, db>>

\* A task runs for the first time, in creation order, once the main
\* coroutine is suspended: `async with sem` then the first fetch.
WorkerStart(w) ==
    /\ m_pc # "start"
    /\ w_pc[w] = "created"
    /\ \A v \in Workers : v < w => w_pc[v] # "created"
    /\ IF SemLocked(sem)
       THEN /\ sem' = [sem EXCEPT !.waiters = Append(@, w)]
            /\ w_pc' = [w_pc EXCEPT ![w] = "waiting"]
       ELSE /\ sem' = [sem EXCEPT !.value = @ - 1]
            /\ w_pc' = [w_pc EXCEPT ![w] = "fetch_html"]
    /\ UNCHANGED <<scrapeVars, mergeVars, recVars, lateVars>>
    /\ UNCHANGED <<net, films, concurrency, client_open, m_pc, m_i, w_loc,
                   saved_movies, db>>

\* A waiter that was handed the permit resumes and issues its first fetch.
WorkerResume(w) ==
    /\ w_pc[w] = "woken"
    /\ w_pc' = [w_pc EXCEPT ![w] = "fetch_html"]
    /\ UNCHANGED <<scrapeVars, mergeVars, recVars, lateVars>>
    /\ UNCHANGED <<net, films, concurrency, sem, client_open, m_pc, m_i, w_loc,
                   saved_movies, db>>

\* A worker that releases the limiter only when it ends normally.
WorkerEnds_NoReleaseOnFailure(w, how) ==
    IF how = "failed"
    THEN /\ UNCHANGED sem
         /\ w_pc' = [w_pc EXCEPT ![w] = how]
    ELSE /\ sem' = SemRelease(sem)
         /\ w_pc' = IF sem.waiters = <<>> THEN [w_pc EXCEPT ![w] = how]
                    ELSE [w_pc EXCEPT ![w] = how, ![Head(sem.waiters)] = "woken"]

\* The worker leaves `async with sem` (normally or by an exception).
WorkerEnds(w, how) ==
    /\ sem' = SemRelease(sem)
    /\ w_pc' = IF sem.waiters = <<>> THEN [w_pc EXCEPT ![w] = how]
               ELSE [w_pc EXCEPT ![w] = how, ![Head(sem.waiters)] = "woken"]

\* html = await fetch_html(client, .../film/{slug})
WorkerDetailFetched(w) ==
    /\ w_pc[w] = "fetch_html"
    /\ AllStarted
    /\ \E resp \in FilmResponses(w, DetailBody(films[w])) :
           w_loc' = [w_loc EXCEPT ![w].html = fetch_html(resp)]
    /\ w_pc' = [w_pc EXCEPT ![w] = "fetch_stats"]
    /\ UNCHANGED <<scrapeVars, mergeVars, recVars, lateVars>>
    /\ UNCHANGED <<net, films, concurrency, sem, client_open, m_pc, m_i,
                   saved_movies, db>>

\* stats_html = await fetch_html(client, .../stats/)
WorkerStatsFetched(w) ==
    /\ w_pc[w] = "fetch_stats"
    /\ AllStarted
    /\ \E resp \in FilmResponses(w, StatsBody) :
           w_loc' = [w_loc EXCEPT ![w].stats_html = fetch_html(resp)]
    /\ w_pc' = [w_pc EXCEPT ![w] = "fetch_ratings"]
    /\ UNCHANGED <<scrapeVars, mergeVars, recVars, lateVars>>
    /\ UNCHANGED <<net, films, concurrency, sem, client_open, m_pc, m_i,
                   saved_movies, db>>

\* ratings_html = await fetch_html(...); then extract_stats, extract_ratings
\* and the build of `details` run without suspension up to the await of
\* save_movie_from_data.  An exception of an extractor ends the worker.
WorkerRatingsFetched(w) ==
    /\ w_pc[w] = "fetch_ratings"
    /\ AllStarted
    /\ \E resp \in FilmResponses(w, RatingsBody) :
        LET ratings_html == fetch_html(resp)
            stats == extract_stats(w_loc[w].stats_html)
            ratings == extract_ratings(ratings_html)
        IN  /\ w_loc' = [w_loc EXCEPT ![w].ratings_html = ratings_html]
            /\ IF stats.raised \/ ratings.raised
               THEN WorkerEnds(w, "failed")
               ELSE /\ w_pc' = [w_pc EXCEPT ![w] = "save"]
                    /\ UNCHANGED sem
    /\ UNCHANGED <<scrapeVars, mergeVars, recVars, lateVars>>
    /\ UNCHANGED <<net, films, concurrency, client_open, m_pc, m_i,
                   saved_movies, db>>

\* await save_movie_from_data(details.copy()) comes back from the thread
\* pool; then saved_movies.append(details) and the release of the limiter.
WorkerSaved(w) ==
    /\ w_pc[w] = "save"
    /\ AllStarted
    /\ LET details == Details(films[w], w_loc[w].html,
                              extract_stats(w_loc[w].stats_html).val,
                              extract_ratings(w_loc[w].ratings_html).val)
           saved == save_movie_from_data(details)
       IN  IF saved.raised
           THEN /\ WorkerEnds(w, "failed")
                /\ UNCHANGED <<saved_movies, db>>
           ELSE /\ WorkerEnds(w, "done")
                /\ db' = db \cup {saved.val}
                /\ saved_movies' = Append(saved_movies, details)
    /\ UNCHANGED <<scrapeVars, mergeVars, recVars, lateVars>>
    /\ UNCHANGED <<net, films, concurrency, client_open, m_pc, m_i, w_loc>>

\* await asyncio.gather(*batch) raises the first exception of a task of the
\* batch; the exception leaves the `async with` (closing the client) and
\* fetch_and_save_all.  The other tasks are not cancelled.
MainGatherRaises ==
    /\ m_pc = "gather"
    /\ \E w \in BatchOf(m_i) : w_pc[w] = "failed"
    /\ m_pc' = "raised"
    /\ client_open' = FALSE
    /\ UNCHANGED <<scrapeVars, mergeVars, recVars, lateVars>>
    /\ UNCHANGED <<net, films, concurrency, sem, m_i, w_pc, w_loc, saved_movies, db>>

\* await asyncio.gather(*batch) returns when every task of the batch has
\* finished; the loop moves to the next batch, or ends and the function
\* returns saved_movies.
MainGatherReturns ==
    /\ m_pc = "gather"
    /\ \A w \in BatchOf(m_i) : w_pc[w] = "done"
    /\ m_i' = m_i + BATCH
    /\ IF m_i + BATCH >= Len(films)
       THEN m_pc' = "returned" /\ client_open' = FALSE
       ELSE UNCHANGED <<m_pc, client_open>>
    /\ UNCHANGED <<scrapeVars, mergeVars, recVars, lateVars>>
    /\ UNCHANGED <<net, films, concurrency, sem, w_pc, w_loc, saved_movies, db>>

FetchNext ==
    \/ MainCreateTasks
    \/ MainGatherRaises
    \/ MainGatherReturns
    \/ \E w \in Workers : WorkerStart(w)
    \/ \E w \in Workers : WorkerResume(w)
    \/ \E w \in Workers : WorkerDetailFetched(w)
    \/ \E w \in Workers : WorkerStatsFetched(w)
    \/ \E w \in Workers : WorkerRatingsFetched(w)
    \/ \E w \in Workers : WorkerSaved(w)

(***************************************************************************)
(* The resumable mergers: scrape_movies_from_csv, scrape_movies_from_list  *)
(***************************************************************************)
\* A slug cell; 0 stands for a blank one.
Blank == 0
MergeSlugs == 1..NumMergeSlugs

\* A list_count cell is text: the decimal form of a number, or something
\* int() cannot read.
Num(n) == [text |-> "num", n |-> n]

\* str(existing_count + count)
Str(n) == Num(n)

\* try: int(cell or 0)  except Exception: 0
IntOrZero(cell) == IF cell.text = "num" THEN cell.n ELSE 0

\* One row of the dataset; `data` stands for the columns name, id, poster,
\* runtime, director, users_rating, views, total_likes, genres.
Row(slug, list_count, data) == [slug |-> slug, list_count |-> list_count, data |-> data]

\* scrape_movie_data: every exception of the collaborator, PrivateRouteError
\* (`except PrivateRouteError: pass`) and any other (`except Exception:
\* pass`), is swallowed and the row comes back with its fields blank.
scrape_movie_data(slug, reachable) ==
    Row(slug, Num(0), IF reachable THEN "scraped" ELSE "blank")

\* Counter(...)[s]
Count(batch, s) == Cardinality({i \in 1..Len(batch) : batch[i] = s})

\* The keys of Counter(...) over the non-blank slugs, in first-seen order.
RECURSIVE CounterKeys(_)
CounterKeys(batch) ==
    IF batch = <<>> THEN <<>>
    ELSE LET front == CounterKeys(SubSeq(batch, 1, Len(batch) - 1))
             s == batch[Len(batch)]
         IN  IF s = Blank \/ s \in Range(front) THEN front ELSE Append(front, s)

HasSlug(rows, s) == \E i \in 1..Len(rows) : rows[i].slug = s

\* A list in place of the dict: every assignment adds an entry.
DictSet_Append(rows, row) == Append(rows, row)

\* existing_rows[slug] = row on a dict: an old key keeps its place.
DictSet(rows, row) ==
    IF HasSlug(rows, row.slug)
    THEN [i \in 1..Len(rows) |-> IF rows[i].slug = row.slug THEN row ELSE rows[i]]
    ELSE Append(rows, row)

\* The load loop over the rows the reader delivers: blank slugs are skipped.
RECURSIVE LoadExisting(_)
LoadExisting(file_rows) ==
    IF file_rows = <<>> THEN <<>>
    ELSE LET front == LoadExisting(SubSeq(file_rows, 1, Len(file_rows) - 1))
             row == file_rows[Len(file_rows)]
         IN  IF row.slug = Blank THEN front ELSE DictSet(front, row)

\* for s, count in slug_counts.items(): if s in existing_rows: add count
UpdateCounts(existing, batch) ==
    [i \in 1..Len(existing) |->
        IF Count(batch, existing[i].slug) > 0
        THEN [existing[i] EXCEPT
                 !.list_count = Str(IntOrZero(@) + Count(batch, existing[i].slug))]
        ELSE existing[i]]

\* slugs_to_process = [s for s in slug_counts.keys() if s not in existing_rows]
SlugsToProcess(existing, batch) ==
    SelectSeq(CounterKeys(batch), LAMBDA s : ~HasSlug(existing, s))

\* The scrape loop: each slug of `todo` is scraped and stored with the
\* batch's count as its list_count.
RECURSIVE ScrapeNew(_, _, _, _)
ScrapeNew(existing, todo, batch, unreachable) ==
    IF todo = <<>> THEN existing
    ELSE LET front == ScrapeNew(existing, SubSeq(todo, 1, Len(todo) - 1), batch,
                                unreachable)
             slug == todo[Len(todo)]
             movie_data == [scrape_movie_data(slug, slug \notin unreachable)
                               EXCEPT !.list_count = Str(Count(batch, slug))]
         IN  DictSet(front, movie_data)

\* seq[lo:hi] of Python
PySlice(q, lo, hi) == SubSeq(q, lo + 1, Min(hi, Len(q)))

\* slugs_to_process[1000:2000]
SliceStart == 1000
SliceStop == 2000

\* What one run does: [wrote, rows, scraped].  `read` is the number of rows
\* the reader delivered before it ended or raised.
NoWrite == [wrote |-> FALSE, rows |-> <<>>, scraped |-> <<>>]

scrape_movies_from_csv(file_rows, read, batch, unreachable) ==
    LET existing == LoadExisting(SubSeq(file_rows, 1, read))
        todo == SlugsToProcess(existing, batch)
    IN  IF todo = <<>> THEN NoWrite
        ELSE [wrote |-> TRUE,
              rows |-> ScrapeNew(UpdateCounts(existing, batch), todo, batch, unreachable),
              scraped |-> todo]

scrape_movies_from_list(file_rows, read, batch, unreachable) ==
    LET existing == UpdateCounts(LoadExisting(SubSeq(file_rows, 1, read)), batch)
        todo == SlugsToProcess(existing, batch)
        sliced == PySlice(todo, SliceStart, SliceStop)
    IN  IF CounterKeys(batch) = <<>> \/ todo = <<>> THEN NoWrite
        ELSE [wrote |-> TRUE,
              rows |-> ScrapeNew(existing, sliced, batch, unreachable),
              scraped |-> sliced]

FileRows ==
    {Row(s, Num(1), "old") : s \in MergeSlugs \cup {Blank}}

MergeInit ==
    /\ merger \in {"csv", "list"}
    /\ \E nb \in 0..MergeSize :
        /\ input_batch \in SeqsUpTo(MergeSlugs \cup {Blank}, nb)
        /\ start_rows \in SeqsUpTo(FileRows, MergeSize - nb)
    /\ output_rows = start_rows
    /\ runs = <<>>

\* The slugs a run called the scraper for.
Scraped(out) == Range(out.scraped)

\* What the log keeps of one run; `private` are the slugs for which the
\* collaborator raised PrivateRouteError.
RunEntry(before, read, out, private) ==
    [before |-> before, complete |-> read = Len(before),
     wrote |-> out.wrote, scraped |-> out.scraped, private |-> private]

MergeIdle ==
    /\ merger = "csv"
    /\ input_batch = <<>>
    /\ start_rows = <<>>
    /\ output_rows = <<>>
    /\ runs = <<>>

\* One run of scrape_movies_from_csv on the input batch.
RunCsvMerge ==
    /\ merger = "csv"
    /\ Len(runs) < MaxRuns
    /\ \E read \in 0..Len(output_rows) :
        \E unreachable \in SUBSET Scraped(scrape_movies_from_csv(output_rows, read,
                                                               input_batch, {})) :
        \E private \in SUBSET unreachable :
        LET out == scrape_movies_from_csv(output_rows, read, input_batch, unreachable)
        IN  /\ output_rows' = IF out.wrote THEN out.rows ELSE output_rows
            /\ runs' = Append(runs, RunEntry(output_rows, read, out, private))
    /\ UNCHANGED <<merger, input_batch, start_rows>>
    /\ UNCHANGED <<scrapeVars, fetchVars, recVars, lateVars>>

\* One run of scrape_movies_from_list on the list's entries.
RunListMerge ==
    /\ merger = "list"
    /\ Len(runs) < MaxRuns
    /\ \E read \in 0..Len(output_rows) :
        \E unreachable \in SUBSET Scraped(scrape_movies_from_list(output_rows, read,
                                                               input_batch, {})) :
        \E private \in SUBSET unreachable :
        LET out == scrape_movies_from_list(output_rows, read, input_batch, unreachable)
        IN  /\ output_rows' = IF out.wrote THEN out.rows ELSE output_rows
            /\ runs' = Append(runs, RunEntry(output_rows, read, out, private))
    /\ UNCHANGED <<merger, input_batch, start_rows>>
    /\ UNCHANGED <<scrapeVars, fetchVars, recVars, lateVars>>

MergeNext ==
    \/ RunCsvMerge
    \/ RunListMerge

(***************************************************************************)
(* MovieRecommender (utils/recommendation_engine.py, recommendation_engine *)
(* .py).  Floats are fixed-point numbers in thousandths; a missing value   *)
(* of a frame is NaN.                                                      *)
(***************************************************************************)
\* np.nan / a missing cell; it is no number and compares false with all.
NaN == -1000000000

\* A value that float() cannot convert (non-numeric text).
NotANumber == NaN - 1

IsNaN(x) == x = NaN

\* n as a fixed-point number; products and quotients of fixed-point numbers.
Milli(n) == n * 1000
FMul(a, b) == (a * b) \div 1000
FDiv(a, b) == (a * 1000) \div b
Abs(a) == IF a < 0 THEN 0 - a ELSE a

RECURSIVE SumSeq(_)
SumSeq(q) == IF q = <<>> THEN 0 ELSE q[1] + SumSeq(Tail(q))

\* floor of the square root, by bisection on lo..hi
RECURSIVE ISqrtIn(_, _, _)
ISqrtIn(v, lo, hi) ==
    IF lo = hi THEN lo
    ELSE LET mid == (lo + hi + 1) \div 2
         IN  IF mid * mid <= v THEN ISqrtIn(v, mid, hi) ELSE ISqrtIn(v, lo, mid - 1)

\* the square root of a fixed-point number
FSqrt(a) == ISqrtIn(a * 1000, 0, 40000)

\* Series.mean(): the missing values are skipped; NaN when nothing is left
Mean(q) ==
    LET xs == SelectSeq(q, LAMBDA x : ~IsNaN(x))
    IN  IF xs = <<>> THEN NaN ELSE SumSeq(xs) \div Len(xs)

\* Series.std(ddof): the missing values are skipped; NaN when fewer than
\* ddof + 1 values are left
Std(q, ddof) ==
    LET xs == SelectSeq(q, LAMBDA x : ~IsNaN(x))
        m == Mean(xs)
        sq == [i \in 1..Len(xs) |-> FMul(xs[i] - m, xs[i] - m)]
    IN  IF Len(xs) <= ddof THEN NaN
        ELSE FSqrt(FDiv(SumSeq(sq), Milli(Len(xs) - ddof)))

\* np.log10 on the powers of ten
Log10(x) == CHOOSE k \in 0..9 : 10^k = x

\* A stable sort of records by their field `key`, largest first
\* (sorted(..., reverse=True), Counter.most_common, DataFrame.nlargest).
RECURSIVE InsertDesc(_, _)
InsertDesc(sorted, x) ==
    IF sorted = <<>> THEN <<x>>
    ELSE IF sorted[1].key >= x.key THEN <<sorted[1]>> \o InsertDesc(Tail(sorted), x)
         ELSE <<x>> \o sorted

RECURSIVE SortDesc(_)
SortDesc(q) ==
    IF q = <<>> THEN <<>>
    ELSE InsertDesc(SortDesc(SubSeq(q, 1, Len(q) - 1)), q[Len(q)])

Head_N(q, n) == SubSeq(q, 1, Min(Max(n, 0), Len(q)))

\* The elements of q in first-seen order, each once.
RECURSIVE FirstSeen(_)
FirstSeen(q) ==
    IF q = <<>> THEN <<>>
    ELSE LET front == FirstSeen(SubSeq(q, 1, Len(q) - 1))
         IN  IF q[Len(q)] \in Range(front) THEN front ELSE Append(front, q[Len(q)])

RECURSIVE Flatten(_)
Flatten(qq) == IF qq = <<>> THEN <<>> ELSE qq[1] \o Flatten(Tail(qq))

\* ---- titles ----
\* A title is a sequence of characters; MissingName is the missing cell.
MissingName == <<"nan">>

IsSpace(c) == c = " "
IsWordChar(c) == c \in {"a", "b", "c", "d", "A", "B"}
Lower(c) == IF c = "A" THEN "a" ELSE IF c = "B" THEN "b" ELSE c

ToLower(s) == [i \in 1..Len(s) |-> Lower(s[i])]

RECURSIVE LStrip(_)
LStrip(s) == IF s # <<>> /\ IsSpace(s[1]) THEN LStrip(Tail(s)) ELSE s

RECURSIVE RStrip(_)
RStrip(s) ==
    IF s # <<>> /\ IsSpace(s[Len(s)]) THEN RStrip(SubSeq(s, 1, Len(s) - 1)) ELSE s

Strip(s) == RStrip(LStrip(s))

\* re.sub(r'[^\w\s]', '', s)
RemovePunctuation(s) == SelectSeq(s, LAMBDA c : IsWordChar(c) \/ IsSpace(c))

\* re.sub(r'\s+', ' ', s)
RECURSIVE CollapseWhitespace(_)
CollapseWhitespace(s) ==
    IF Len(s) < 2 THEN s
    ELSE IF IsSpace(s[1]) /\ IsSpace(s[2]) THEN CollapseWhitespace(Tail(s))
         ELSE <<s[1]>> \o CollapseWhitespace(Tail(s))

\* utils/recommendation_engine.py: _normalize_name
normalize_name(name) ==
    IF name = MissingName THEN <<>>
    ELSE CollapseWhitespace(RemovePunctuation(Strip(ToLower(name))))

\* recommendation_engine.py: _normalize_title
normalize_title(title) ==
    IF title = MissingName THEN <<>>
    ELSE RemovePunctuation(Strip(ToLower(title)))

\* The normalization of the engine in use.
Normalized(eng, name) ==
    IF eng = "utils" THEN normalize_name(name) ELSE normalize_title(name)

\* ---- the catalog ----
\* One row of movies.csv.  `genres` is the delimited cell, given as its
\* parts ("" for an empty part); year, length and ratings may be missing (NaN).  The columns of the
\* root engine's recommendations.csv are title, release_year,
\* runtime_minutes, vote_average, genres, vote_count in the same places.
CatalogRow(name, year, length, ratings, genres, total_likes) ==
    [name |-> name, year |-> year, length |-> length, ratings |-> ratings,
     genres |-> genres, total_likes |-> total_likes]

\* _split_genres: the parts of the cell, the empty ones dropped
split_genres(g) == SelectSeq(g, LAMBDA part : part # "")

\* The derived column genre_list: the root engine keeps every part.
genre_list(eng, row) == IF eng = "utils" THEN split_genres(row.genres) ELSE row.genres

\* One entry of letterboxd_data: {'name': ..., 'year': ..., 'ratings': ...};
\* year 0 stands for None.
Entry(name, year, ratings) == [name |-> name, year |-> year, ratings |-> ratings]

\* ---- match_letterboxd_movies ----
\* A narrowing by year only when it leaves exactly one row.
MatchesOf_ExactlyOne(eng, cat, entry) ==
    LET norm == Normalized(eng, entry.name)
        matches == {i \in 1..Len(cat) : Normalized(eng, cat[i].name) = norm}
        year_matches == {i \in matches : cat[i].year = entry.year}
    IN  IF Cardinality(matches) > 1 /\ entry.year # 0 /\ Cardinality(year_matches) = 1
        THEN year_matches
        ELSE matches

\* The catalog rows (by position) the entry is matched against: those with
\* the entry's normalized title, narrowed to those of the entry's year when
\* there are several, the year is given and some row has it.
MatchesOf(eng, cat, entry) ==
    LET norm == Normalized(eng, entry.name)
        matches == {i \in 1..Len(cat) : Normalized(eng, cat[i].name) = norm}
        year_matches == {i \in matches : cat[i].year = entry.year}
    IN  IF Cardinality(matches) > 1 /\ entry.year # 0 /\ year_matches # {}
        THEN year_matches
        ELSE matches

\* matches.iloc[0]
FirstOf(S) == CHOOSE i \in S : \A j \in S : i <= j

\* The matched rows with the user's rating, or the ValueError of float() on
\* a rating that is no number (utils engine; the root engine stores the
\* rating as it is).
RECURSIVE match_letterboxd_movies(_, _, _)
match_letterboxd_movies(eng, cat, data) ==
    IF data = <<>> THEN [raised |-> FALSE, rows |-> <<>>]
    ELSE LET front == match_letterboxd_movies(eng, cat, SubSeq(data, 1, Len(data) - 1))
             entry == data[Len(data)]
             m == MatchesOf(eng, cat, entry)
         IN  IF front.raised \/ m = {} THEN front
             ELSE IF eng = "utils" /\ entry.ratings = NotANumber
                  THEN [raised |-> TRUE, rows |-> front.rows]
                  ELSE [raised |-> FALSE,
                        rows |-> Append(front.rows,
                                        [row |-> FirstOf(m), user_rating |-> entry.ratings])]

\* ---- analyze_user_preferences ----
NoPrefs == [built |-> FALSE]

\* The column of a numeric catalog field over the matched rows.
Column(cat, um, field) ==
    [i \in 1..Len(um) |->
        IF IsNaN(cat[um[i].row][field]) THEN NaN ELSE Milli(cat[um[i].row][field])]

\* A title counted for its first genre only.
GenrePairs_FirstGenreOnly(eng, cat, um, rating) ==
    Flatten([i \in 1..Len(um) |->
                LET gl == genre_list(eng, cat[um[i].row])
                IN  [k \in 1..Min(1, Len(gl)) |-> [g |-> gl[k], u |-> rating[i]]]])

\* One (genre, rating) pair for every genre of every matched row, in order.
GenrePairs(eng, cat, um, rating) ==
    Flatten([i \in 1..Len(um) |->
                LET gl == genre_list(eng, cat[um[i].row])
                IN  [k \in 1..Len(gl) |-> [g |-> gl[k], u |-> rating[i]]]])

\* genre_scores[g] / genre_counts[g] per genre, sorted by value, largest
\* first, equal values in first-seen order.
GenrePreferences(pairs) ==
    LET keys == FirstSeen([k \in 1..Len(pairs) |-> pairs[k].g])
        of(g) == SelectSeq(pairs, LAMBDA p : p.g = g)
        avg(g) == SumSeq([k \in 1..Len(of(g)) |-> of(g)[k].u]) \div Max(Len(of(g)), 1)
        sorted == SortDesc([k \in 1..Len(keys) |-> [key |-> avg(keys[k]), g |-> keys[k]]])
    IN  [k \in 1..Len(sorted) |-> [genre |-> sorted[k].g, affinity |-> sorted[k].key]]

\* [g for g, _ in Counter(all_genres).most_common(5)] over the rows rated
\* 4.0 or more
HighRatedGenres(eng, cat, um, rating) ==
    LET high_rated == SelectSeq([i \in 1..Len(um) |-> [row |-> um[i].row, u |-> rating[i]]],
                                LAMBDA r : r.u >= 4000)
        all_genres == Flatten([i \in 1..Len(high_rated) |->
                                  genre_list(eng, cat[high_rated[i].row])])
        keys == FirstSeen(all_genres)
        count(g) == Len(SelectSeq(all_genres, LAMBDA x : x = g))
        common == SortDesc([k \in 1..Len(keys) |-> [key |-> count(keys[k]), g |-> keys[k]]])
    IN  [k \in 1..Min(5, Len(common)) |-> common[k].g]

\* utils/recommendation_engine.py: population statistics, spread 0.0 for
\* fewer than two rows, a missing user rating counted as 0.
analyze_user_preferences(cat, um) ==
    LET rating == [i \in 1..Len(um) |->
                      IF IsNaN(um[i].user_rating) THEN 0 ELSE um[i].user_rating]
        spread(col) == IF Len(um) > 1 THEN Std(col, 0) ELSE 0
        centre(col) == IF Len(um) > 0 THEN Mean(col) ELSE NaN
    IN  [built |-> TRUE,
         genres |-> GenrePreferences(GenrePairs("utils", cat, um, rating)),
         avg_ratings |-> IF Len(um) > 0 THEN Mean(rating) ELSE 0,
         ratings_std |-> spread(rating),
         avg_year |-> centre(Column(cat, um, "year")),
         year_std |-> spread(Column(cat, um, "year")),
         avg_runtime |-> centre(Column(cat, um, "length")),
         runtime_std |-> spread(Column(cat, um, "length")),
         high_rated_genres |-> HighRatedGenres("utils", cat, um, rating)]

\* recommendation_engine.py: sample statistics (Series.std() has ddof=1).
root_analyze_user_preferences(cat, um) ==
    LET rating == [i \in 1..Len(um) |-> um[i].user_rating]
    IN  [built |-> TRUE,
         genres |-> GenrePreferences(GenrePairs("root", cat, um, rating)),
         avg_ratings |-> Mean(rating),
         ratings_std |-> Std(rating, 1),
         avg_year |-> Mean(Column(cat, um, "year")),
         year_std |-> Std(Column(cat, um, "year"), 1),
         avg_runtime |-> Mean(Column(cat, um, "length")),
         runtime_std |-> Std(Column(cat, um, "length"), 1),
         high_rated_genres |-> HighRatedGenres("root", cat, um, rating)]

\* ---- calculate_similarity_score ----
RECURSIVE SumOver(_, _)
SumOver(S, f) ==
    IF S = {} THEN 0
    ELSE LET x == CHOOSE y \in S : TRUE IN f[x] + SumOver(S \ {x}, f)

\* prefs['genres'].get(g, 0)
AffinityOr0(p, g) ==
    IF \E k \in 1..Len(p.genres) : p.genres[k].genre = g
    THEN p.genres[CHOOSE k \in 1..Len(p.genres) : p.genres[k].genre = g].affinity
    ELSE 0

ModelGenres(p) == {p.genres[k].genre : k \in 1..Len(p.genres)}

\* Genre matching (40%): the mean of get(g, 0) over every genre of the
\* candidate, over 5.
GenreComponent(movie_row, p) ==
    LET movie_genres == Range(genre_list("utils", movie_row))
        matched_scores == [g \in movie_genres |-> AffinityOr0(p, g)]
    IN  IF movie_genres # {} /\ p.genres # <<>>
        THEN FMul(FDiv(SumOver(movie_genres, matched_scores) \div Cardinality(movie_genres),
                       5000), 400)
        ELSE 0

\* High-rated genre bonus (10%)
HighRatedComponent(eng, movie_row, p) ==
    LET movie_genres == Range(genre_list(eng, movie_row))
        high_matches == Cardinality(movie_genres \cap Range(p.high_rated_genres))
    IN  IF eng = "root" \/ p.high_rated_genres # <<>>
        THEN FMul(FDiv(Milli(high_matches), Milli(Max(Len(p.high_rated_genres), 1))), 100)
        ELSE 0

\* Movie's own average rating (20%): float(ratings or 0.0) / 5.0 * 0.20; a
\* missing rating is NaN, which is truthy.
RatingComponent(movie_row) ==
    IF IsNaN(movie_row.ratings) THEN NaN
    ELSE FMul(FDiv(movie_row.ratings, 5000), 200)

\* Popularity (10%): min(log10(pop + 1) / 5, 1.0) * 0.10 for pop > 0
PopularityComponent(movie_row) ==
    IF movie_row.total_likes > 0
    THEN FMul(Min(Milli(Log10(movie_row.total_likes + 1)) \div 5, 1000), 100)
    ELSE 0

\* max(0.0, 1.0 - diff / denom) * 0.10 when both values are there
Proximity(value, centre, spread, tolerance) ==
    IF ~IsNaN(centre) /\ ~IsNaN(value)
    THEN FMul(Max(0, 1000 - FDiv(Abs(Milli(value) - centre), (spread * 2) + tolerance)), 100)
    ELSE 0

\* Year proximity (10%)
YearComponent(movie_row, p) == Proximity(movie_row.year, p.avg_year, p.year_std, 1000)

\* Runtime proximity (10%)
RuntimeComponent(movie_row, p) ==
    Proximity(movie_row.length, p.avg_runtime, p.runtime_std, 10000)

\* The sentinel of an excluded candidate.
Excluded == 0 - 1000

\* A version without the watched check.
calculate_similarity_score_NoSentinel(movie_row, p, watched_normalized_names) ==
    IF IsNaN(RatingComponent(movie_row)) THEN NaN
    ELSE GenreComponent(movie_row, p) + HighRatedComponent("utils", movie_row, p)
           + RatingComponent(movie_row) + PopularityComponent(movie_row)
           + YearComponent(movie_row, p) + RuntimeComponent(movie_row, p)

calculate_similarity_score(movie_row, p, watched_normalized_names) ==
    IF normalize_name(movie_row.name) \in watched_normalized_names THEN Excluded
    ELSE IF IsNaN(RatingComponent(movie_row)) THEN NaN
    ELSE GenreComponent(movie_row, p) + HighRatedComponent("utils", movie_row, p)
           + RatingComponent(movie_row) + PopularityComponent(movie_row)
           + YearComponent(movie_row, p) + RuntimeComponent(movie_row, p)

\* recommendation_engine.py: the mean over the candidate's genres the model
\* knows, times 0.4.
root_GenreComponent(movie, p) ==
    LET known == Range(genre_list("root", movie)) \cap ModelGenres(p)
        score == [g \in known |-> AffinityOr0(p, g)]
    IN  IF known # {} THEN FMul(SumOver(known, score) \div Cardinality(known), 400)
        ELSE 0

\* vote_average / 10.0 * 0.2
root_RatingComponent(movie) ==
    IF IsNaN(movie.ratings) THEN NaN ELSE FMul(FDiv(movie.ratings, 10000), 200)

\* min(np.log10(vote_count) / 5, 1.0) * 0.1 for vote_count > 0
root_PopularityComponent(movie) ==
    IF movie.total_likes > 0
    THEN FMul(Min(Milli(Log10(movie.total_likes)) \div 5, 1000), 100)
    ELSE 0

\* max(0, 1 - diff / (std * 2 + 1)) * 0.1; max(0, nan) is 0
root_Proximity(value, centre, spread) ==
    IF IsNaN(value) \/ IsNaN(centre) \/ IsNaN(spread) THEN 0
    ELSE FMul(Max(0, 1000 - FDiv(Abs(Milli(value) - centre), (spread * 2) + 1000)), 100)

root_calculate_similarity_score(movie, p, watched_titles) ==
    IF movie.name \in watched_titles THEN Excluded
    ELSE IF IsNaN(root_RatingComponent(movie)) THEN NaN
    ELSE root_GenreComponent(movie, p) + HighRatedComponent("root", movie, p)
           + root_RatingComponent(movie) + root_PopularityComponent(movie)
           + root_Proximity(movie.year, p.avg_year, p.year_std)
           + root_Proximity(movie.length, p.avg_runtime, p.runtime_std)

\* ---- get_recommendations ----
ValueError(msg) == [type |-> "ValueError", msg |-> msg]
NoException == [type |-> "none", msg |-> ""]

\* set(user_movies['name_normalized'].values) / set(user_movies['title'].values)
Watched(eng, cat, um) ==
    {IF eng = "utils" THEN normalize_name(cat[um[i].row].name) ELSE cat[um[i].row].name :
        i \in 1..Len(um)}

ScoreOf(eng, movie_row, p, watched) ==
    IF eng = "utils" THEN calculate_similarity_score(movie_row, p, watched)
    ELSE root_calculate_similarity_score(movie_row, p, watched)

\* The rows with at least min_popularity likes, in storage order, with
\* their score.
Candidates(eng, cat, p, watched, floor) ==
    LET idx == SelectSeq([i \in 1..Len(cat) |-> i], LAMBDA i : cat[i].total_likes >= floor)
    IN  [k \in 1..Len(idx) |->
            [row |-> idx[k], recommendation_score |-> ScoreOf(eng, cat[idx[k]], p, watched)]]

\* candidates[candidates['recommendation_score'] > 0]
Positive(cands) ==
    SelectSeq(cands, LAMBDA c : ~IsNaN(c.recommendation_score) /\ c.recommendation_score > 0)

\* The first n rows in storage order.
nlargest_Head(n, cands) == Head_N(cands, n)

\* DataFrame.nlargest(n, 'recommendation_score'): the n largest, largest
\* first, equal scores in their order in the frame.
nlargest(n, cands) ==
    LET sorted == SortDesc([k \in 1..Len(cands) |->
                               [key |-> cands[k].recommendation_score, c |-> cands[k]]])
    IN  Head_N([k \in 1..Len(sorted) |-> sorted[k].c], n)

\* get_recommendations, step 1: user_movies = self.match_letterboxd_movies(...)
RecMatch ==
    /\ r_pc = "call"
    /\ LET m == match_letterboxd_movies(engine, movies_df, letterboxd_data)
       IN  IF m.raised
           THEN /\ r_pc' = "raised"
                /\ r_exc' = ValueError("could not convert string to float")
                /\ UNCHANGED user_movies
           ELSE /\ r_pc' = "matched"
                /\ user_movies' = m.rows
                /\ UNCHANGED r_exc
    /\ UNCHANGED <<engine, movies_df, letterboxd_data, n_recommendations, min_popularity,
                   prefs, candidates, recs>>
    /\ UNCHANGED <<probeVars, viewVars>>
    /\ UNCHANGED <<scrapeVars, fetchVars, mergeVars, lateVars>>

\* if len(user_movies) == 0: raise ValueError('No movies could be matched ...')
RecNoMatch ==
    /\ r_pc = "matched"
    /\ Len(user_movies) = 0
    /\ r_pc' = "raised"
    /\ r_exc' = ValueError("No movies could be matched from Letterboxd data.")
    /\ UNCHANGED <<engine, movies_df, letterboxd_data, n_recommendations, min_popularity,
                   user_movies, prefs, candidates, recs>>
    /\ UNCHANGED <<probeVars, viewVars>>
    /\ UNCHANGED <<scrapeVars, fetchVars, mergeVars, lateVars>>

\* prefs = self.analyze_user_preferences(user_movies)
RecAnalyze ==
    /\ r_pc = "matched"
    /\ Len(user_movies) # 0
    /\ prefs' = IF engine = "utils" THEN analyze_user_preferences(movies_df, user_movies)
                ELSE root_analyze_user_preferences(movies_df, user_movies)
    /\ r_pc' = "analyzed"
    /\ UNCHANGED <<engine, movies_df, letterboxd_data, n_recommendations, min_popularity,
                   user_movies, candidates, recs, r_exc>>
    /\ UNCHANGED <<probeVars, viewVars>>
    /\ UNCHANGED <<scrapeVars, fetchVars, mergeVars, lateVars>>

\* The popularity filter, the score column, the filter on positive scores,
\* nlargest and the return.
RecRank ==
    /\ r_pc = "analyzed"
    /\ candidates' = Candidates(engine, movies_df, prefs,
                                Watched(engine, movies_df, user_movies), min_popularity)
    /\ recs' = nlargest(n_recommendations, Positive(candidates'))
    /\ r_pc' = "returned"
    /\ UNCHANGED <<engine, movies_df, letterboxd_data, n_recommendations, min_popularity,
                   user_movies, prefs, r_exc>>
    /\ UNCHANGED <<probeVars, viewVars>>
    /\ UNCHANGED <<scrapeVars, fetchVars, mergeVars, lateVars>>

RecNext ==
    \/ RecMatch
    \/ RecNoMatch
    \/ RecAnalyze
    \/ RecRank

\* ---- calculate_similarity_score on arguments of any kind ----
ScoreCandidate ==
    /\ r_pc = "probe"
    /\ probe_score' = ScoreOf(engine, probe.movie_row, probe.prefs, probe.watched)
    /\ r_pc' = "probed"
    /\ UNCHANGED <<engine, movies_df, letterboxd_data, n_recommendations, min_popularity,
                   user_movies, prefs, candidates, recs, r_exc>>
    /\ UNCHANGED <<probe, viewVars>>
    /\ UNCHANGED <<scrapeVars, fetchVars, mergeVars, lateVars>>

\* ---- import_letterboxd_view ----
NoError == "None"

\* get_recommendations(letterboxd_data, n_recommendations=12, min_popularity=50)
ViewN == 12
ViewMinPopularity == 50

\* The dispatch on the method and the username, up to the call of the
\* recommender.
ViewDispatch ==
    /\ v_pc = "request"
    /\ IF request.method = "GET" THEN v_pc' = "rendered" /\ UNCHANGED r_pc
       ELSE IF request.method # "POST" \/ request.username = "" THEN
           v_pc' = "bad_request" /\ UNCHANGED r_pc
       ELSE v_pc' = "recommend" /\ r_pc' = "call"
    /\ UNCHANGED <<engine, movies_df, letterboxd_data, n_recommendations, min_popularity,
                   user_movies, prefs, candidates, recs, r_exc>>
    /\ UNCHANGED <<request, recommendations, recommender_error>>
    /\ UNCHANGED probeVars
    /\ UNCHANGED <<scrapeVars, fetchVars, mergeVars, lateVars>>

\* The end of the try block: the records of the frame, or the except branch.
\* A record of recs holds the row's position and its score, which is never
\* missing, so fillna('') changes nothing in it.
ViewCollect ==
    /\ v_pc = "recommend"
    /\ r_pc \in {"returned", "raised"}
    /\ IF r_pc = "returned"
       THEN recommendations' = recs /\ recommender_error' = NoError
       ELSE recommendations' = <<>> /\ recommender_error' = r_exc.msg
    /\ v_pc' = "collected"
    /\ UNCHANGED <<request, engineVars, probeVars>>
    /\ UNCHANGED <<scrapeVars, fetchVars, mergeVars, lateVars>>

\* print(recommendations[0]) and the render.
ViewRender ==
    /\ v_pc = "collected"
    /\ v_pc' = IF recommendations = <<>> THEN "unhandled" ELSE "rendered"
    /\ UNCHANGED <<request, recommendations, recommender_error, engineVars, probeVars>>
    /\ UNCHANGED <<scrapeVars, fetchVars, mergeVars, lateVars>>

ViewNext ==
    \/ ViewDispatch
    \/ RecMatch
    \/ RecNoMatch
    \/ RecAnalyze
    \/ RecRank
    \/ ViewCollect
    \/ ViewRender

\* ---- get_diverse_recommendations ----
\* int(n_recommendations * 3 / (1 - diversity_factor + 1e-9)): the added
\* 1e-9 takes an exact quotient just below the integer.
PoolSize(n, factor) ==
    LET d == 1000 - factor
    IN  IF n = 0 THEN 0
        ELSE IF (3000 * n) % d = 0 THEN (3000 * n) \div d - 1
        ELSE (3000 * n) \div d

\* The pool is asked with min_popularity=50.
PoolMinPopularity == 50

\* The factors for which the double 1 - diversity_factor lies below the real
\* number: 1 - 0.8 is 0.19999999999999996.
RoundsBelow == {800}

\* int(n_recommendations * (1 - diversity_factor)) in double arithmetic,
\* for n_recommendations up to 10: where 1 - diversity_factor lies below
\* the real number, a product that would be whole stays just under it and
\* int() cuts it to the integer before (5 * (1 - 0.8) is
\* 0.9999999999999998).
NSafe(n, factor) ==
    LET exact == n * (1000 - factor)
    IN  IF factor \in RoundsBelow /\ n > 0 /\ exact % 1000 = 0
        THEN exact \div 1000 - 1
        ELSE exact \div 1000

\* pool.head(n_safe)
Safe(pool, n_safe) == Head_N(pool, n_safe)

\* pool.iloc[n_safe:]
Rest(pool, n_safe) == SubSeq(pool, Min(n_safe, Len(pool)) + 1, Len(pool))

\* scores.clip(lower=0) ** 0.5
Weight(rec) == FSqrt(Max(rec.recommendation_score, 0))

WeightsSum(rest) == SumSeq([k \in 1..Len(rest) |-> Weight(rest[k])])

\* The sequences of k positions of rest, none twice.
Samples(rest, k) ==
    {q \in SeqsUpTo(1..Len(rest), k) :
        /\ Len(q) = k
        /\ \A i, j \in 1..k : i # j => q[i] # q[j]}

\* Draws with replacement.
Draws_WithReplacement(rest, k) ==
    {[i \in 1..k |-> rest[q[i]]] : q \in {r \in SeqsUpTo(1..Len(rest), k) : Len(r) = k}}

\* The outcomes of the draw of k rows of rest without replacement:
\* rest.sample(n=k, replace=False) when the weights sum to nothing, else
\* np.random.choice(rest.index, size=k, replace=False, p=probs), which
\* draws only rows of positive probability.
Draws(rest, k) ==
    IF WeightsSum(rest) <= 0
    THEN {[i \in 1..k |-> rest[q[i]]] : q \in Samples(rest, k)}
    ELSE {[i \in 1..k |-> rest[q[i]]] :
            q \in {r \in Samples(rest, k) : \A i \in 1..k : Weight(rest[r[i]]) > 0}}

\* pool = self.get_recommendations(letterboxd_data, n_recommendations=..., min_popularity=50)
DivCall ==
    /\ d_pc = "start"
    /\ r_pc = "idle"
    /\ n_recommendations' = PoolSize(d_n, diversity_factor)
    /\ min_popularity' = PoolMinPopularity
    /\ r_pc' = "call"
    /\ d_pc' = "pooling"
    /\ UNCHANGED <<engine, movies_df, letterboxd_data, user_movies, prefs, candidates,
                   recs, r_exc>>
    /\ UNCHANGED <<d_n, diversity_factor, d_result>>
    /\ UNCHANGED <<probeVars, viewVars>>
    /\ UNCHANGED <<scrapeVars, fetchVars, mergeVars, siteVars>>

\* The error of get_recommendations leaves get_diverse_recommendations.
DivRaise ==
    /\ d_pc = "pooling"
    /\ r_pc = "raised"
    /\ d_pc' = "raised"
    /\ UNCHANGED <<d_n, diversity_factor, d_result>>
    /\ UNCHANGED recVars
    /\ UNCHANGED <<scrapeVars, fetchVars, mergeVars, siteVars>>

\* The rest of the function: the empty pool, the safe rows, the draw and
\* the concatenation cut at n_recommendations.
DivPick ==
    /\ d_pc = "pooling"
    /\ r_pc = "returned"
    /\ LET pool == recs
           n_safe == NSafe(d_n, diversity_factor)
           n_explore == d_n - n_safe
           safe == Safe(pool, n_safe)
           rest == Rest(pool, n_safe)
       IN  IF pool = <<>> THEN d_result' = pool
           ELSE IF Len(rest) = 0 THEN d_result' = Head_N(safe, d_n)
           ELSE \E chosen \in Draws(rest, Min(n_explore, Len(rest))) :
                    d_result' = Head_N(safe \o chosen, d_n)
    /\ d_pc' = "returned"
    /\ UNCHANGED <<d_n, diversity_factor>>
    /\ UNCHANGED recVars
    /\ UNCHANGED <<scrapeVars, fetchVars, mergeVars, siteVars>>

DiverseNext ==
    \/ DivCall
    \/ RecMatch
    \/ RecNoMatch
    \/ RecAnalyze
    \/ RecRank
    \/ DivRaise
    \/ DivPick

\* ---- GenreListView, MovieDetailView ----
\* Genre names; their order is the order of the names.
NumGenres == 2      \* names a Genre can have
GenreNames == 1..NumGenres

MaxGets == 3        \* requests served
MaxTicks == 3       \* steps of the clock

\* The clock moves in steps of five minutes.
Tick == 60 * 5

\* cache_page(60 * 15)
CacheTimeout == 60 * 15

\* ordering = ['name']: the rows by name.
RECURSIVE OrderByName(_)
OrderByName(names) ==
    IF names = {} THEN <<>>
    ELSE LET least == CHOOSE n \in names : \A m \in names : n <= m
         IN  <<least>> \o OrderByName(names \ {least})

\* The page GenreListView renders: the genres of the table, by name.
GenreListPage(table) == OrderByName(Range(table))

\* The page MovieDetailView renders for a row: what the template shows of it.
MovieDetailPage(row) == <<row.slug, row.name>>

\* An entry that is never served.
Fresh_Never(entry, now) == FALSE

\* The cache serves an entry until its expiry time is reached.
Fresh(entry, now) == entry.stored /\ now < entry.expires

Response(view, content, hit) ==
    [view |-> view, at |-> clock, content |-> content, hit |-> hit]

\* GET of the genre list: dispatch under cache_page(60 * 15) answers from
\* the cache, or renders the page and stores it for 15 minutes.
GenreListGet ==
    /\ Len(responses) < MaxGets
    /\ IF Fresh(page_cache, clock)
       THEN /\ responses' = Append(responses, Response("genre-list", page_cache.content, TRUE))
            /\ UNCHANGED page_cache
       ELSE LET content == GenreListPage(genre_table)
            IN  /\ responses' = Append(responses, Response("genre-list", content, FALSE))
                /\ page_cache' = [stored |-> TRUE, content |-> content,
                                  expires |-> clock + CacheTimeout]
    /\ UNCHANGED <<clock, genre_table, movie_record>>
    /\ UNCHANGED <<scrapeVars, fetchVars, mergeVars, recVars, diverseVars>>

\* Genre.objects.create(name=...): names are unique.
GenreCreate ==
    /\ \E name \in GenreNames \ Range(genre_table) :
        genre_table' = Append(genre_table, name)
    /\ UNCHANGED <<clock, movie_record, page_cache, responses>>
    /\ UNCHANGED <<scrapeVars, fetchVars, mergeVars, recVars, diverseVars>>

\* GET of the detail page of 'avatar': get_object reads the row and the
\* template is rendered; MovieDetailView has no cache decorator.
MovieDetailGet ==
    /\ Len(responses) < MaxGets
    /\ responses' = Append(responses, Response("movie-detail", MovieDetailPage(movie_record), FALSE))
    /\ UNCHANGED <<clock, genre_table, movie_record, page_cache>>
    /\ UNCHANGED <<scrapeVars, fetchVars, mergeVars, recVars, diverseVars>>

MovieNames == {"Avatar", "Avatar Updated"}

\* movie.name = ...; movie.save()
MovieSave ==
    /\ \E name \in MovieNames \ {movie_record.name} :
        movie_record' = [movie_record EXCEPT !.name = name]
    /\ UNCHANGED <<clock, genre_table, page_cache, responses>>
    /\ UNCHANGED <<scrapeVars, fetchVars, mergeVars, recVars, diverseVars>>

\* Time passes.
ClockTick ==
    /\ clock < MaxTicks * Tick
    /\ clock' = clock + Tick
    /\ UNCHANGED <<genre_table, movie_record, page_cache, responses>>
    /\ UNCHANGED <<scrapeVars, fetchVars, mergeVars, recVars, diverseVars>>

SiteNext ==
    \/ GenreListGet
    \/ GenreCreate
    \/ MovieDetailGet
    \/ MovieSave
    \/ ClockTick

\* ---- inputs ----
MaxCatalog == 3     \* rows of the catalog

Action == "Action"
Drama == "Drama"

CatalogRows ==
    {CatalogRow(<<"A">>, 2000, 100, 4000, <<Action>>, 999),
     CatalogRow(<<"a", "!">>, 1999, 120, 4000, <<Action, "", Drama>>, 999),
     CatalogRow(<<"b">>, 2000, 100, 4000, <<Action>>, 999),
     CatalogRow(<<"c">>, 2000, 100, 4000, <<Action>>, 999),
     CatalogRow(<<"b", " ", " ", "b">>, NaN, NaN, NaN, <<>>, 99999),
     CatalogRow(<<"c">>, 1999, 120, 9900, <<Drama>>, 9)}

Histories ==
    {<<>>,
     <<Entry(<<"a">>, 0, 5000)>>,
     <<Entry(<<"d">>, 0, 5000)>>,
     <<Entry(<<" ", "A">>, 1999, NaN)>>,
     <<Entry(<<"a">>, 0, NotANumber)>>,
     <<Entry(<<"c">>, 1999, 4000)>>,
     <<Entry(<<"a">>, 2000, 5000), Entry(<<"B">>, 2000, 3000)>>,
     <<Entry(<<"a">>, 0, 4000), Entry(<<"B", " ", "b">>, 0, 2000)>>}

\* The catalog of the root engine: vote_average is on 0..10.
RootRows ==
    {CatalogRow(<<"A">>, 2000, 100, 8000, <<Action>>, 1000),
     CatalogRow(<<"a">>, 2000, 100, 8000, <<Action>>, 1000),
     CatalogRow(<<"b">>, 1999, 120, 6000, <<Drama>>, 100000)}

RootHistories ==
    {<<>>,
     <<Entry(<<"A">>, 0, 5000)>>,
     <<Entry(<<"d">>, 0, 5000)>>,
     <<Entry(<<"a">>, 2000, 4000), Entry(<<"B">>, 0, 2000)>>}

NValues == {0, 1, 2}
Floors == {0, 50}

EngineIdle ==
    /\ engine = "utils"
    /\ movies_df = <<>>
    /\ letterboxd_data = <<>>
    /\ n_recommendations = 0
    /\ min_popularity = 0
    /\ r_pc = "idle"
    /\ user_movies = <<>>
    /\ prefs = NoPrefs
    /\ candidates = <<>>
    /\ recs = <<>>
    /\ r_exc = NoException

ProbeIdle ==
    /\ probe = <<>>
    /\ probe_score = NaN

ViewIdle ==
    /\ v_pc = "idle"
    /\ request = [method |-> "GET", username |-> ""]
    /\ recommendations = <<>>
    /\ recommender_error = NoError

RecIdle ==
    /\ EngineIdle
    /\ ProbeIdle
    /\ ViewIdle

DiverseIdle ==
    /\ d_pc = "idle"
    /\ d_n = 0
    /\ diversity_factor = 0
    /\ d_result = <<>>

\* An empty cache (the tests call cache.clear() first).
NoEntry == [stored |-> FALSE, content |-> <<>>, expires |-> 0]

\* Movie.objects.create(name="Avatar", slug="avatar", ...)
Avatar == [slug |-> "avatar", name |-> "Avatar"]

SiteIdle ==
    /\ clock = 0
    /\ genre_table = <<>>
    /\ movie_record = Avatar
    /\ page_cache = NoEntry
    /\ responses = <<>>

LateIdle ==
    /\ DiverseIdle
    /\ SiteIdle

\* The engine over a catalog, and the arguments of get_recommendations.
EngineArgs(eng, cat, data, n, floor) ==
    /\ engine = eng
    /\ movies_df = cat
    /\ letterboxd_data = data
    /\ n_recommendations = n
    /\ min_popularity = floor
    /\ user_movies = <<>>
    /\ prefs = NoPrefs
    /\ candidates = <<>>
    /\ recs = <<>>
    /\ r_exc = NoException

\* Preference models handed to calculate_similarity_score.
Model(genres, high, year, year_std, runtime, runtime_std) ==
    [built |-> TRUE, genres |-> genres, avg_ratings |-> 0, ratings_std |-> 0,
     avg_year |-> year, year_std |-> year_std,
     avg_runtime |-> runtime, runtime_std |-> runtime_std,
     high_rated_genres |-> high]

Models ==
    {Model(<<>>, <<>>, NaN, 0, NaN, 0),
     Model(<<[genre |-> Action, affinity |-> 5000]>>, <<Action>>, 2000000, 0, 100000, 0),
     Model(<<[genre |-> Drama, affinity |-> 4000], [genre |-> Action, affinity |-> 2000]>>,
           <<Drama>>, 1999500, 500, 110000, 10000)}

ScrapeIdle ==
    /\ server = [mode |-> "any", K |-> 0, ps |-> 1]
    /\ s_pc = "returned"
    /\ page = 1
    /\ all_films = <<>>
    /\ seen_urls = {}
    /\ pages_scraped = 0
    /\ requests = <<>>

(***************************************************************************)
(* Specifications.                                                         *)
(***************************************************************************)
ScrapeNext == ScrapeIteration

ScrapeSpecInit ==
    /\ RecIdle
    /\ LateIdle
    /\ ScrapeInit
    /\ FetchIdle
    /\ MergeIdle

SpecScrape == ScrapeSpecInit /\ [][ScrapeNext]_vars

\* fetch_and_save_all on a few films, any request free to fail.
FetchInit ==
    /\ RecIdle
    /\ LateIdle
    /\ ScrapeIdle
    /\ MergeIdle
    /\ \E fs \in FilmLists, c \in 1..MaxConc : FetchInitWith(fs, c, 1..Len(fs))

SpecFetch == FetchInit /\ [][FetchNext]_vars

\* The event loop runs a ready task whenever there is one, and every fetch
\* and every save comes back: some step of fetch_and_save_all is taken as
\* long as one is possible.
SpecFetchLive == FetchInit /\ [][FetchNext]_vars /\ WF_vars(FetchNext)

\* fetch_and_save_all on one film more than a batch holds; the requests of
\* the first batch all succeed, those of the last film may fail.
BatchInit ==
    /\ RecIdle
    /\ LateIdle
    /\ ScrapeIdle
    /\ MergeIdle
    /\ FetchInitWith([i \in 1..(BATCH + 1) |-> FilmOf(1)], 2, {BATCH + 1})

SpecBatch == BatchInit /\ [][FetchNext]_vars

\* The mergers run on a small persisted file and a small batch.
MergeSpecInit ==
    /\ RecIdle
    /\ LateIdle
    /\ ScrapeIdle
    /\ FetchIdle
    /\ MergeInit

SpecMerge == MergeSpecInit /\ [][MergeNext]_vars

ProbeInit ==
    /\ ScrapeIdle
    /\ FetchIdle
    /\ MergeIdle
    /\ LateIdle
    /\ ViewIdle
    /\ \E eng \in {"utils", "root"} : EngineArgs(eng, <<>>, <<>>, 0, 0)
    /\ r_pc = "probe"
    /\ probe \in [movie_row : IF engine = "utils" THEN CatalogRows ELSE RootRows,
                  prefs : Models,
                  watched : SUBSET {<<"a">>, <<"b">>, <<"c">>, <<"b", " ", "b">>}]
    /\ probe_score = NaN

SpecScore == ProbeInit /\ [][ScoreCandidate]_vars

\* get_recommendations of utils/recommendation_engine.py.
RecommendInit ==
    /\ ScrapeIdle
    /\ FetchIdle
    /\ MergeIdle
    /\ LateIdle
    /\ ProbeIdle
    /\ ViewIdle
    /\ \E cat \in SeqsUpTo(CatalogRows, MaxCatalog), data \in Histories,
          n \in NValues, floor \in Floors :
            EngineArgs("utils", cat, data, n, floor)
    /\ r_pc = "call"

SpecRecommend == RecommendInit /\ [][RecNext]_vars

\* get_recommendations of recommendation_engine.py.
RootInit ==
    /\ ScrapeIdle
    /\ FetchIdle
    /\ MergeIdle
    /\ LateIdle
    /\ ProbeIdle
    /\ ViewIdle
    /\ \E cat \in SeqsUpTo(RootRows, MaxCatalog), data \in RootHistories,
          n \in NValues, floor \in Floors :
            EngineArgs("root", cat, data, n, floor)
    /\ r_pc = "call"

SpecRoot == RootInit /\ [][RecNext]_vars

\* One request to import_letterboxd_view.  The ratings of the history come
\* from Movie.ratings: a number or nothing.
ViewHistories ==
    {h \in Histories : \A k \in 1..Len(h) : h[k].ratings # NotANumber}

Requests ==
    [method : {"GET", "POST", "PUT"}, username : {"", "john"}]

ViewInit ==
    /\ ScrapeIdle
    /\ FetchIdle
    /\ MergeIdle
    /\ LateIdle
    /\ ProbeIdle
    /\ v_pc = "request"
    /\ request \in Requests
    /\ recommendations = <<>>
    /\ recommender_error = NoError
    /\ \E cat \in SeqsUpTo(CatalogRows, MaxCatalog), data \in ViewHistories :
            EngineArgs("utils", cat, data, ViewN, ViewMinPopularity)
    /\ r_pc = "idle"

SpecView == ViewInit /\ [][ViewNext]_vars

\* One call of get_diverse_recommendations.  The catalog holds the watched
\* row "b" and candidates of two different scores, any of them repeated.
MaxPool == 4        \* rows of the catalog of the diverse call

DiverseRows ==
    {CatalogRow(<<"b">>, 2000, 100, 4000, <<Action>>, 999),
     CatalogRow(<<"A">>, 2000, 100, 4000, <<Action>>, 999),
     CatalogRow(<<"c">>, 1999, 120, 3000, <<Drama>>, 999)}

DiverseHistories == {<<>>, <<Entry(<<"b">>, 2000, 5000)>>}

DiverseNs == 0..5
DiversityFactors == {0, 300, 500, 800}

DiverseInit ==
    /\ ScrapeIdle
    /\ FetchIdle
    /\ MergeIdle
    /\ ProbeIdle
    /\ ViewIdle
    /\ SiteIdle
    /\ \E cat \in SeqsUpTo(DiverseRows, MaxPool), data \in DiverseHistories :
            EngineArgs("utils", cat, data, 0, 0)
    /\ r_pc = "idle"
    /\ d_pc = "start"
    /\ d_n \in DiverseNs
    /\ diversity_factor \in DiversityFactors
    /\ d_result = <<>>

SpecDiverse == DiverseInit /\ [][DiverseNext]_vars

\* The site with its two pages, starting from an empty cache.
SiteInit ==
    /\ ScrapeIdle
    /\ FetchIdle
    /\ MergeIdle
    /\ RecIdle
    /\ DiverseIdle
    /\ clock = 0
    /\ genre_table \in SeqsUpTo(GenreNames, 1)
    /\ movie_record = Avatar
    /\ page_cache = NoEntry
    /\ responses = <<>>

SpecSite == SiteInit /\ [][SiteNext]_vars

(***************************************************************************)
(* Properties of scrape_all_watched.                                       *)
(***************************************************************************)
CeilDiv(a, b) == (a + b - 1) \div b

HasDuplicateSlug(fl) ==
    \E i, j \in 1..Len(fl) : i < j /\ fl[i].slug = fl[j].slug

\* The listing pages that added something: fetched, with an unseen slug.
Contributed(r) == r.fetched /\ r.fresh # {}

LastFetchedPage ==
    LET ok == {i \in 1..Len(requests) : requests[i].fetched}
    IN  IF ok = {} THEN 0 ELSE CHOOSE i \in ok : \A j \in ok : j <= i

\* C6: against a listing of K unique titles served in pages of a constant
\* size, every fetch succeeding, the run never raises, never issues more than
\* ceil(K/ps)+1 page requests, and returns after ceil(K/ps) or ceil(K/ps)+1
\* requests with exactly the K titles, in listing order.
C6_PaginationComplete ==
    server.mode = "listing" =>
        LET pagesNeeded == CeilDiv(server.K, server.ps)
        IN  /\ s_pc # "raised"
            /\ Len(requests) <= pagesNeeded + 1
            /\ s_pc = "returned" =>
                /\ Len(requests) \in {pagesNeeded, pagesNeeded + 1}
                /\ all_films = [i \in 1..server.K |-> FilmOf(i)]

C6_Witness ==
    /\ server.mode = "listing"
    /\ server.K = NumSlugs
    /\ server.ps = MaxPageLen
    /\ s_pc = "returned"
    /\ Len(all_films) = NumSlugs
    /\ Len(requests) > 1

\* C7: the list returned by scrape_all_watched never holds two entries with
\* the same slug, whatever the pages contain.
C7_NoDuplicateSlugs ==
    s_pc = "returned" => ~HasDuplicateSlug(all_films)

C9_LastFetchedPage ==
    s_pc = "returned" => pages_scraped = LastFetchedPage

\* C9 (amended): pages_scraped is the number of listing pages that were
\* fetched and held a new title, which is the index of the last such page;
\* it is the last fetched page when the loop ended on a failed fetch, and one
\* less than that when the loop ended on a fetched page with no new title.
C9_PagesThatContributed ==
    s_pc = "returned" =>
        LET n == Len(requests)
        IN  /\ pages_scraped = Cardinality({i \in 1..n : Contributed(requests[i])})
            /\ pages_scraped = n - 1
            /\ ~requests[n].fetched => pages_scraped = LastFetchedPage
            /\ requests[n].fetched => pages_scraped = LastFetchedPage - 1

C9_Witness ==
    /\ s_pc = "returned"
    /\ Len(requests) = 3
    /\ requests[3].fetched
    /\ pages_scraped = 2

(***************************************************************************)
(* Properties of fetch_and_save_all.                                       *)
(***************************************************************************)
\* The workers that hold the limiter: the permit is theirs from the acquire
\* (or from the release that handed it to them) until they leave the block.
Holders ==
    {w \in Workers :
        w_pc[w] \in {"woken", "fetch_html", "fetch_stats", "fetch_ratings", "save"}}

Started(w) == w_pc[w] \notin {"none", "created", "waiting"}
Completed(w) == w_pc[w] \in {"done", "failed"}

\* The batch a task belongs to, counted from 0.
BatchNo(w) == (w - 1) \div BATCH

\* C1: no worker of batch k+1 has acquired the limiter or issued a fetch
\* while a worker of batch k has not completed.
C1_BatchGating ==
    \A v, w \in Workers :
        (BatchNo(w) = BatchNo(v) + 1 /\ Started(w)) => Completed(v)

\* C2: at most `concurrency` workers hold the limiter at any time, and the
\* limiter's counter is the number of free permits.
C2_LimiterBound ==
    /\ Cardinality(Holders) <= concurrency
    /\ sem.value = concurrency - Cardinality(Holders)

C2_Witness ==
    /\ Cardinality(Holders) = concurrency
    /\ \E w \in Workers : w_pc[w] = "waiting"
    /\ \E w \in Workers : w_pc[w] = "save"

FetchesDone(w) == w_pc[w] \in {"save", "done", "failed"}

FailedFetches(w) ==
    {k \in {"html", "stats_html", "ratings_html"} : w_loc[w][k].kind = "None"}

\* C4: a unit of which exactly one of the three fetches failed does not fail;
\* it ends with a record whose fields from the failed fetch are empty and
\* whose fields from the two other fetches are filled.
C4_PartialFailureIsolated ==
    \A w \in Workers :
        (client_open /\ FetchesDone(w) /\ Cardinality(FailedFetches(w)) = 1) =>
            /\ w_pc[w] # "failed"
            /\ w_pc[w] = "done" =>
                \E i \in 1..Len(saved_movies) :
                    LET r == saved_movies[i]
                    IN  /\ r.slug = films[w].slug
                        /\ r.parsed <=> "html" \notin FailedFetches(w)
                        /\ "stats_html" \notin FailedFetches(w) =>
                               r.total_views = StatsBody[1]
                        /\ r.ratings = IF "ratings_html" \in FailedFetches(w)
                                       THEN <<>> ELSE RatingsBody

\* C5: a failing unit never makes fetch_and_save_all raise, and the returned
\* list holds the record of every film whose unit succeeded.
C5_FailureDoesNotAbort ==
    /\ m_pc # "raised"
    /\ m_pc = "returned" =>
        \A w \in Workers :
            w_pc[w] = "done" =>
                \E i \in 1..Len(saved_movies) : saved_movies[i].slug = films[w].slug

(***************************************************************************)
(* Properties of the mergers.                                              *)
(***************************************************************************)
\* The file as run number i left it.
RowsAfter(i) == IF i < Len(runs) THEN runs[i + 1].before ELSE output_rows

RowsWithSlug(rows, s) == {i \in 1..Len(rows) : rows[i].slug = s}

\* The row the loaded dict holds for a slug: the last one of the file.
LastRowOf(rows, s) ==
    rows[CHOOSE i \in RowsWithSlug(rows, s) : \A j \in RowsWithSlug(rows, s) : j <= i]

CountIn(rows, s) ==
    IF RowsWithSlug(rows, s) = {} THEN 0 ELSE IntOrZero(LastRowOf(rows, s).list_count)

BatchSlugs == Range(input_batch) \ {Blank}

\* C3: after two runs of a merger with the same batch, both reading the
\* whole file, every slug of the batch has exactly one row, whose list_count
\* is its starting count plus twice the batch's count and whose other fields
\* are those the first run left.
C3_MergeTwiceDoubles ==
    (Len(runs) >= 2 /\ runs[1].complete /\ runs[2].complete) =>
        \A s \in BatchSlugs :
            /\ Cardinality(RowsWithSlug(RowsAfter(2), s)) = 1
            /\ CountIn(RowsAfter(2), s) = CountIn(start_rows, s) + 2 * Count(input_batch, s)
            /\ Cardinality(RowsWithSlug(RowsAfter(1), s)) = 1
            /\ LastRowOf(RowsAfter(2), s).data = LastRowOf(RowsAfter(1), s).data

\* C10: after a run of either merger, every slug of the batch that the file
\* did not hold before the run has exactly one row in the file, with the
\* number of its occurrences in the batch as list_count.
C10_NewSlugsInserted ==
    \A i \in 1..Len(runs) :
        \A s \in BatchSlugs :
            RowsWithSlug(runs[i].before, s) = {} =>
                /\ Cardinality(RowsWithSlug(RowsAfter(i), s)) = 1
                /\ LastRowOf(RowsAfter(i), s).list_count = Str(Count(input_batch, s))

\* C11: a run that read the whole file never calls the scraper for a slug
\* the file already holds, keeps the other fields of its row, and adds the
\* batch's count for the slug to its list_count.
C11_ExistingRowsOnlyCounted ==
    \A i \in 1..Len(runs) :
        runs[i].complete =>
            \A s \in MergeSlugs :
                RowsWithSlug(runs[i].before, s) # {} =>
                    /\ s \notin Range(runs[i].scraped)
                    /\ RowsWithSlug(RowsAfter(i), s) # {}
                    /\ LastRowOf(RowsAfter(i), s).data = LastRowOf(runs[i].before, s).data
                    /\ CountIn(RowsAfter(i), s)
                           = CountIn(runs[i].before, s) + Count(input_batch, s)

SameTitle(entry) ==
    {i \in 1..Len(movies_df) :
        Normalized(engine, movies_df[i].name) = Normalized(engine, entry.name)}

\* The normalized titles of the matched history.
MatchedTitles ==
    {Normalized(engine, movies_df[user_movies[i].row].name) : i \in 1..Len(user_movies)}

\* C13: no returned row has the normalized name of a matched history title.
C13_WatchedNeverReturned ==
    r_pc = "returned" =>
        \A k \in 1..Len(recs) :
            Normalized(engine, movies_df[recs[k].row].name) \notin MatchedTitles

\* C14: calculate_similarity_score returns exactly -1.0 for a candidate
\* whose normalized name is in the excluded set, whatever its other fields
\* and whatever the preference model.
C14_ScoreSentinel ==
    (r_pc = "probed" /\ engine = "utils"
        /\ normalize_name(probe.movie_row.name) \in probe.watched) =>
            probe_score = Excluded

C14_Witness ==
    /\ r_pc = "probed"
    /\ engine = "utils"
    /\ normalize_name(probe.movie_row.name) \in probe.watched
    /\ probe.movie_row.name # normalize_name(probe.movie_row.name)
    /\ IsNaN(probe.movie_row.ratings)
    /\ probe.prefs.genres # <<>>
    /\ probe_score = Excluded

\* The score get_recommendations gives catalog row i.
RowScore(i) ==
    ScoreOf(engine, movies_df[i], prefs, Watched(engine, movies_df, user_movies))

\* The rows that pass the popularity floor and have a positive score.
Eligible ==
    {i \in 1..Len(movies_df) :
        /\ movies_df[i].total_likes >= min_popularity
        /\ ~IsNaN(RowScore(i))
        /\ RowScore(i) > 0}

Returned == {recs[k].row : k \in 1..Len(recs)}

\* C15: the result has at most n rows, each an eligible row with its score;
\* the rows are in non-increasing score order, equal scores in storage
\* order; a row is left out only when n rows are returned, and no eligible
\* row left out has a higher score than a returned one.
C15_RankingContract ==
    r_pc = "returned" =>
        /\ Len(recs) <= Max(n_recommendations, 0)
        /\ \A k \in 1..Len(recs) :
            /\ recs[k].row \in Eligible
            /\ movies_df[recs[k].row].total_likes >= min_popularity
            /\ recs[k].recommendation_score = RowScore(recs[k].row)
            /\ recs[k].recommendation_score > 0
        /\ \A k, l \in 1..Len(recs) :
            k < l =>
                /\ recs[k].recommendation_score >= recs[l].recommendation_score
                /\ recs[k].recommendation_score = recs[l].recommendation_score
                       => recs[k].row < recs[l].row
        /\ Len(recs) = Min(Max(n_recommendations, 0), Cardinality(Eligible))
        /\ \A i \in Eligible \ Returned :
            \A k \in 1..Len(recs) : RowScore(i) <= recs[k].recommendation_score

C15_Witness ==
    /\ r_pc = "returned"
    /\ Len(recs) = 1
    /\ min_popularity > 0
    /\ \E i \in 1..Len(movies_df) : movies_df[i].total_likes < min_popularity
    /\ \E i \in Eligible \ Returned :
        /\ RowScore(i) = recs[1].recommendation_score
        /\ recs[1].row < i

\* C16: the score of a candidate that is not excluded is at most 1.0 and
\* each of the six components lies between 0 and its weight.
C16_ScoreBounded ==
    (r_pc = "probed" /\ engine = "utils"
        /\ normalize_name(probe.movie_row.name) \notin probe.watched) =>
            /\ ~IsNaN(probe_score)
            /\ probe_score <= 1000
            /\ GenreComponent(probe.movie_row, probe.prefs) \in 0..400
            /\ HighRatedComponent("utils", probe.movie_row, probe.prefs) \in 0..100
            /\ ~IsNaN(RatingComponent(probe.movie_row))
            /\ RatingComponent(probe.movie_row) \in 0..200
            /\ PopularityComponent(probe.movie_row) \in 0..100
            /\ YearComponent(probe.movie_row, probe.prefs) \in 0..100
            /\ RuntimeComponent(probe.movie_row, probe.prefs) \in 0..100

\* The genre component as the claim states it: the mean affinity over the
\* candidate's genres the model knows, over 5, times 0.40.
MeanOverKnownGenres(eng, movie_row, p) ==
    LET known == Range(genre_list(eng, movie_row)) \cap ModelGenres(p)
        affinity == [g \in known |-> AffinityOr0(p, g)]
    IN  IF known = {} THEN 0
        ELSE FMul(FDiv(SumOver(known, affinity) \div Cardinality(known), 5000), 400)

\* C17: the genre component of the score of a candidate that is not
\* excluded is the mean of the model's
\* affinities over the candidate's genres present in the model, divided by
\* 5 and weighted 0.40.
C17_GenreMeanOverKnown ==
    (r_pc = "probed" /\ probe_score # Excluded) =>
        (IF engine = "utils" THEN GenreComponent(probe.movie_row, probe.prefs)
         ELSE root_GenreComponent(probe.movie_row, probe.prefs))
            = MeanOverKnownGenres(engine, probe.movie_row, probe.prefs)

\* The entries of the history that match some row, in order.
MatchedEntries == SelectSeq(letterboxd_data, LAMBDA e : SameTitle(e) # {})

RowsOfYear(entry) == {i \in SameTitle(entry) : movies_df[i].year = entry.year}

MatchDone == r_pc \in {"matched", "analyzed", "returned"}

\* C18 (as claimed): the row of the given year is chosen if the year is
\* given and exactly one row sharing the title has it; in every other case
\* the first of all the rows sharing the title.
C18_YearOnlyWhenUnique ==
    MatchDone =>
        /\ Len(user_movies) = Len(MatchedEntries)
        /\ \A k \in 1..Len(user_movies) :
            LET e == MatchedEntries[k]
            IN  user_movies[k].row =
                    IF e.year # 0 /\ Cardinality(RowsOfYear(e)) = 1
                    THEN FirstOf(RowsOfYear(e))
                    ELSE FirstOf(SameTitle(e))

\* C18 (amended): when several rows share the title, the year is given and
\* at least one of them has that year, the first row of that year is
\* chosen; in every other case the first of all the rows sharing the title.
C18_FirstOfYearMatches ==
    MatchDone =>
        /\ Len(user_movies) = Len(MatchedEntries)
        /\ \A k \in 1..Len(user_movies) :
            LET e == MatchedEntries[k]
            IN  user_movies[k].row =
                    IF e.year # 0 /\ RowsOfYear(e) # {}
                    THEN FirstOf(RowsOfYear(e))
                    ELSE FirstOf(SameTitle(e))

C18_Witness ==
    /\ MatchDone
    /\ \E k \in 1..Len(user_movies) :
        LET e == MatchedEntries[k]
        IN  /\ e.year # 0
            /\ Cardinality(RowsOfYear(e)) >= 2
            /\ user_movies[k].row = FirstOf(RowsOfYear(e))
            /\ FirstOf(SameTitle(e)) < user_movies[k].row

\* The exception classes of Python itself.
BuiltinExceptions == {"Exception", "ValueError", "TypeError", "KeyError", "IndexError"}

NoEntryMatches == \A k \in 1..Len(letterboxd_data) : SameTitle(letterboxd_data[k]) = {}

\* C19: when no entry of the history matches a catalog row, the call fails
\* with an error of a class of its own, which no other failure of the call
\* has, and it builds no preference model and scores no candidate.
C19_NoMatchIsDedicatedError ==
    /\ (r_pc \in {"returned", "raised"} /\ NoEntryMatches) =>
            /\ r_pc = "raised"
            /\ r_exc.type \notin BuiltinExceptions
            /\ prefs = NoPrefs
            /\ candidates = <<>>
    /\ (r_pc = "raised" /\ ~NoEntryMatches) =>
            r_exc.type \in BuiltinExceptions

\* C20: a POST with a username always ends in a rendered response, in which
\* a recommender failure (recommender_error set, no recommendations), a
\* successful empty result (no error, no recommendations) and a successful
\* non-empty result can be told apart.
C20_OutcomesRendered ==
    /\ v_pc # "unhandled"
    /\ (v_pc = "rendered" /\ request.method = "POST") =>
            /\ r_pc \in {"returned", "raised"}
            /\ (r_pc = "raised") <=> (recommender_error # NoError)
            /\ r_pc = "raised" => recommendations = <<>>
            /\ r_pc = "returned" => recommendations = recs


\* The whole ranking of get_recommendations: every row that passes the
\* floor and has a positive score, best first.
Ranked == nlargest(Len(movies_df), Positive(candidates))

DivDone == d_pc = "returned"

\* The number of safe rows of the result.
SafeCount == Min(NSafe(d_n, diversity_factor), Len(recs))

\* floor(n * (1 - diversity_factor))
FloorNSafe == (d_n * (1000 - diversity_factor)) \div 1000

\* C21: with n_safe = floor(n * (1 - diversity_factor)), the first n_safe
\* rows of the result of get_diverse_recommendations are the n_safe
\* highest-ranked rows, in the same order, and at most n - n_safe
\* exploration rows follow them.
C21_SafePicksAreTop ==
    DivDone =>
        LET k == Min(FloorNSafe, Len(Ranked))
        IN  /\ Len(d_result) >= k
            /\ SubSeq(d_result, 1, k) = SubSeq(Ranked, 1, k)
            /\ Len(d_result) - k <= d_n - FloorNSafe

\* C22: whatever the draws give, the result holds no row twice, every
\* exploration row comes from the pool below the safe rows, the result has
\* at most n rows, and it is the safe rows alone when nothing is below them.
C22_DrawsWithoutReplacement ==
    DivDone =>
        /\ \A i, j \in 1..Len(d_result) : i # j => d_result[i].row # d_result[j].row
        /\ \A i \in (SafeCount + 1)..Len(d_result) :
            \E k \in (SafeCount + 1)..Len(recs) : d_result[i] = recs[k]
        /\ Len(d_result) <= d_n
        /\ Len(recs) <= NSafe(d_n, diversity_factor) => d_result = SubSeq(recs, 1, SafeCount)

C22_Witness ==
    /\ DivDone
    /\ SafeCount = 1
    /\ Len(recs) = 3
    /\ Len(d_result) = 3
    /\ d_result[2] = recs[3]
    /\ d_result[3] = recs[2]


PrefsBuilt == r_pc \in {"analyzed", "returned"} /\ engine = "utils"

\* The genres of the matched title of entry i of the matched history.
GenresOfMatched(i) == Range(split_genres(movies_df[user_movies[i].row].genres))

\* The matched titles that contain genre g.
Containing(g) == {i \in 1..Len(user_movies) : g \in GenresOfMatched(i)}

\* The user's rating of matched title i; a title without a rating adds 0.
UserRating == [i \in 1..Len(user_movies) |->
                  IF IsNaN(user_movies[i].user_rating) THEN 0
                  ELSE user_movies[i].user_rating]

\* C23: in the preference model the affinity of a genre is the sum of the
\* user ratings of the matched titles containing the genre divided by the
\* number of such titles, a title counting for each of its genres, and the
\* model has an affinity for exactly the genres of the matched history.
C23_GenreAffinityIsMean ==
    PrefsBuilt =>
        /\ ModelGenres(prefs) = UNION {GenresOfMatched(i) : i \in 1..Len(user_movies)}
        /\ Cardinality(ModelGenres(prefs)) = Len(prefs.genres)
        /\ \A k \in 1..Len(prefs.genres) :
            LET g == prefs.genres[k].genre
            IN  prefs.genres[k].affinity
                    = SumOver(Containing(g), UserRating) \div Cardinality(Containing(g))

C23_Witness ==
    /\ PrefsBuilt
    /\ Len(user_movies) = 2
    /\ \E i \in 1..2 : Cardinality(GenresOfMatched(i)) = 2
    /\ \E g \in ModelGenres(prefs) :
        /\ Cardinality(Containing(g)) = 2
        /\ UserRating[1] # UserRating[2]
    /\ \E g \in ModelGenres(prefs) : Cardinality(Containing(g)) = 1


\* C24: fetch_html never propagates a failure: a network error, a timeout
\* and a non-2xx status each give None, after which the caller goes on (the
\* scrape returns normally with what it has); a successful request gives
\* the text of the page.
C24_FetchFailureIsNone ==
    /\ s_pc # "raised"
    /\ \A k \in 1..Len(requests) :
        /\ requests[k].html.kind # "raise"
        /\ requests[k].status \in {"exception", "timeout", "http_error"} =>
            /\ requests[k].html = None
            /\ k = Len(requests)
            /\ s_pc = "returned"
            /\ {f.slug : f \in Range(all_films)} = UNION {requests[i].fresh : i \in 1..(k - 1)}
        /\ requests[k].status = "ok" =>
            /\ requests[k].html.kind \in {"text", "empty"}
            /\ Len(requests[k].html.body) = requests[k].listed

C24_Witness ==
    /\ s_pc = "returned"
    /\ Len(requests) = 2
    /\ requests[1].status = "ok"
    /\ requests[1].html.kind = "text"
    /\ requests[2].status = "timeout"
    /\ requests[2].html = None
    /\ all_films # <<>>


\* The row run k wrote for slug s is the record of a successful call with
\* nothing in its fields.
ReturnedBlank(k, s) ==
    /\ runs[k].wrote
    /\ \E i \in 1..Len(RowsAfter(k)) :
        RowsAfter(k)[i].slug = s /\ RowsAfter(k)[i].data = "blank"

\* C25: a PrivateRouteError of the collaborator during collection reaches
\* the caller as an outcome of its own; it never becomes an ordinary,
\* successfully returned empty record.
C25_RestrictionSurfaced ==
    \A k \in 1..Len(runs) :
        \A s \in runs[k].private : ~ReturnedBlank(k, s)


\* The responses of one view, by their place in the log.
ResponsesOf(view) == {i \in 1..Len(responses) : responses[i].view = view}

\* C26: a second GET of the detail page of a movie returns the content of
\* the first, also when the movie was changed and saved in between.
C26_MovieDetailCached ==
    \A i, j \in ResponsesOf("movie-detail") :
        responses[i].content = responses[j].content

OrderedByName(content) ==
    \A a, b \in 1..Len(content) : a < b => content[a] < content[b]

\* C27 (as claimed): a GET of the genre list made within 15 minutes of an
\* earlier GET returns the content of the earlier one, also when a genre
\* was added in between, and the list is ordered by name.
C27_SameAsAnyEarlierGet ==
    \A i, j \in ResponsesOf("genre-list") :
        /\ OrderedByName(responses[j].content)
        /\ (i < j /\ responses[j].at - responses[i].at < CacheTimeout) =>
               responses[j].content = responses[i].content

\* C27 (amended): a GET of the genre list made within 15 minutes of an
\* earlier GET that was not answered from the cache returns the content of
\* that one, also when a genre was added in between, and the list is
\* ordered by name.
C27_SameAsStoringGet ==
    \A i, j \in ResponsesOf("genre-list") :
        /\ OrderedByName(responses[j].content)
        /\ (i < j /\ ~responses[i].hit
                /\ responses[j].at - responses[i].at < CacheTimeout) =>
               /\ responses[j].hit
               /\ responses[j].content = responses[i].content

C27_Witness ==
    /\ Len(responses) = 2
    /\ ResponsesOf("genre-list") = {1, 2}
    /\ responses[2].at > responses[1].at
    /\ responses[2].content = responses[1].content
    /\ responses[2].content # <<>>
    /\ Len(genre_table) = 2
    /\ ~OrderedByName(genre_table)
    /\ GenreListPage(genre_table) # responses[2].content


Ended == m_pc \in {"returned", "raised"}

\* C28: once fetch_and_save_all has ended, by a return or by an exception,
\* and the client is closed, no worker task is still running: none fetches,
\* saves or appends to saved_movies afterwards.
C28_NoWorkerOutlivesCall ==
    Ended => (~client_open /\ \A w \in Workers : Completed(w))


\* rows holds a row with the slug and the scraped fields of r; its
\* list_count may have been brought up to date.
Kept(rows, r) ==
    \E j \in 1..Len(rows) : rows[j].slug = r.slug /\ rows[j].data = r.data

\* C29: every row the dataset file held before a run of
\* scrape_movies_from_csv is still in the file after the run, rows with a
\* blank slug included, also when the file was not read to its end.
C29_NoRowLostByMerge ==
    merger = "csv" =>
        \A i \in 1..Len(runs) :
            \A k \in 1..Len(runs[i].before) : Kept(RowsAfter(i), runs[i].before[k])


\* The limiter holds every permit and nobody waits for it.
LimiterFull == sem.value = concurrency /\ sem.waiters = <<>>

AllCompleted == \A w \in Workers : Completed(w)

\* C30: a worker holds a permit only while it runs inside `async with sem`
\* and gives it back when it ends, also by a failure; when every fetch and
\* save comes back, every film's worker eventually ends, no worker is left
\* waiting and the limiter is back at its full count.
C30_WorkersEndAndRelease ==
    /\ [](sem.value = concurrency - Cardinality(Holders))
    /\ [](\A w \in Workers : Completed(w) => w \notin Range(sem.waiters))
    /\ <>[](m_pc # "start" /\ AllCompleted /\ LimiterFull)

\* More films than permits, so that a worker had to wait, and a worker
\* failed; all have ended and the limiter is full again.
C30_Witness ==
    /\ Len(films) > concurrency
    /\ AllCompleted
    /\ \E w \in Workers : w_pc[w] = "failed"
    /\ \E w \in Workers : w_pc[w] = "done"
    /\ LimiterFull

=============================================================================
